---- MODULE Spec2Model ----
(***************************************************************************)
(* Verification model of minimoto: the optimistic retry helper             *)
(* (utils.py), the connection singletons (connector.py), the asynchronous  *)
(* operation executor and manager (manager.py), and the schema / document  *)
(* / field engine (collection.py, field.py).                               *)
(*                                                                         *)
(* Each subsystem has its own specification (SpecOpt, SpecExec, ...) over  *)
(* the module's variables; the variables of the other subsystems stay at   *)
(* their idle values.                                                      *)
(***************************************************************************)
EXTENDS Integers, Sequences, FiniteSets, TLC

VARIABLES
    repeats,         \* optimistic(): the `repeats` argument
    retry_on_error,  \* optimistic(): the `retry_on_error` argument
    script,          \* what `action` does on its i-th invocation
    attempt,         \* the loop variable of `for attempt in range(1, repeats + 1)`
    invocations,     \* how many times `action` has been invoked
    optPc            \* "loop" | "returned" | "raised_retry" | "raised_error"

optVars == <<repeats, retry_on_error, script, attempt, invocations, optPc>>

VARIABLES
    _connection,   \* the module global `_connection`: 0 is None, n > 0 the n-th connection created
    _db,           \* the module global `_db`: a database handle, or NoDb for None
    created,       \* how many connections connection_class(**kwargs) has constructed
    disconnected,  \* the connections whose disconnect() method has been called
    lastCall       \* the last connector call: its arguments, the globals before it, its result

connVars == <<_connection, _db, created, disconnected, lastCall>>

VARIABLES
    exPc,        \* "idle" | "waiting" (suspended at `yield motor.Op(...)`) | "done"
    ex,          \* the arguments and collaborators' behaviour of the invocation
    target,      \* what the driver verb was dispatched against
    calls,       \* the callback's invocations so far, in order: (result, error) pairs
    propagated,  \* the exception that left execute, or None
    failedStage  \* the stage of the try block that raised, or None

execVars == <<exPc, ex, target, calls, propagated, failedStage>>

VARIABLES
    onePc,      \* per invocation of MotorManager.one: "idle" | "waiting" | "done"
    oneFound,   \* what self.find delivered to the invocation: a (result, error) pair
    oneCalls,   \* the invocations of the caller's callback, in order
    oneRaised,  \* the exception that left one(), or None
    oneCb       \* whether the caller's callback raises

oneVars == <<onePc, oneFound, oneCalls, oneRaised, oneCb>>

VARIABLES
    classes,         \* the schema types created so far, in order: [bases, attrs, mro]
    __lazy_classes__,    \* the module global `__lazy_classes__`: the registered types
    managers,        \* the types a manager (`objects`) is bound to
    lastDefine       \* the last type definition attempted and what it raised

schemaVars == <<classes, __lazy_classes__, managers, lastDefine>>

VARIABLES
    fields,       \* per schema class, its `__fields__` attribute: the cached field table
    profile,      \* a Profile instance: whether it exists, its `_data`, what the caller set
    lastRead      \* the last attribute read or as_dict call on it, and the result

VARIABLES
    docs          \* the Owner and Item instances created so far, in order: their class,
                  \* `__parent__` (0: not set), `_data`; and, for the properties, the
                  \* first value of `__parent__` and the owner a raw input was coerced under

docVars == <<fields, profile, lastRead, docs>>

VARIABLES
    paginator,    \* the Paginator instance: its page, per_page, total_count
    pagRead       \* the last property read or iterate_pages call on it, and its value

pagVars == <<paginator, pagRead>>

VARIABLES
    pair,         \* two document instances a, b: their class and `_id` value
    cmpRead       \* the last ==, != or hash() on them, and its result

cmpVars == <<pair, cmpRead>>

VARIABLES
    createCall    \* the last Counter.create(raw, strict): its arguments, what it raised,
                  \* and the `_data` of the instance it returned

mkVars == <<createCall>>

VARIABLES
    lastTable     \* the last field table requested: the class and the table returned

tblVars == <<lastTable>>

VARIABLES
    top,          \* a Top instance: whether it exists and its `_data`, nested documents
                  \* by value
    lastValidate  \* the last validate call on it: the flag, what it raised, the fields listed

valVars == <<top, lastValidate>>

vars == <<optVars, connVars, execVars, oneVars, schemaVars, docVars, pagVars, cmpVars, mkVars, tblVars, valVars>>

\* The Python value None.
None == "None"

(***************************************************************************)
(* utils.optimistic                                                        *)
(***************************************************************************)
\* Largest `repeats` explored.
MaxRepeats == 3

\* What one invocation of `action` does: return, raise RetryError, raise another Exception.
Outcomes == {"ok", "retry", "error"}

InitOpt ==
    /\ repeats \in 0..MaxRepeats
    /\ retry_on_error \in BOOLEAN
    /\ script \in [1..MaxRepeats -> Outcomes]
    /\ attempt = 0
    /\ invocations = 0
    /\ optPc = "loop"

IdleOpt ==
    /\ repeats = 0
    /\ retry_on_error = FALSE
    /\ script = [i \in 1..MaxRepeats |-> "ok"]
    /\ attempt = 0
    /\ invocations = 0
    /\ optPc = "idle"

\* `if attempt == repeats: raise` in the `except RetryError` clause.
RetryReraisesMutant(a, n) == a > n
RetryReraises(a, n) == a = n

\* `if not retry_on_error or attempt == repeats: raise` in the `except Exception` clause.
ErrorReraisesMutant(roe, a, n) == a = n
ErrorReraises(roe, a, n) == ~roe \/ a = n

\* range(1, repeats + 1) is exhausted: the for loop ends without a break.
OptimisticExhausted ==
    /\ optPc = "loop"
    /\ attempt + 1 > repeats
    /\ optPc' = "returned"
    /\ UNCHANGED <<repeats, retry_on_error, script, attempt, invocations>>
    /\ UNCHANGED <<connVars, execVars, oneVars, schemaVars, docVars, pagVars, cmpVars, mkVars, tblVars, valVars>>

\* One iteration of the for loop: invoke action, then break, continue or re-raise.
OptimisticAttempt ==
    /\ optPc = "loop"
    /\ attempt + 1 <= repeats
    /\ attempt' = attempt + 1
    /\ invocations' = invocations + 1
    /\ optPc' = CASE script[attempt'] = "ok" -> "returned"
                  [] script[attempt'] = "retry" ->
                        IF RetryReraises(attempt', repeats) THEN "raised_retry" ELSE "loop"
                  [] OTHER ->
                        IF ErrorReraises(retry_on_error, attempt', repeats)
                        THEN "raised_error" ELSE "loop"
    /\ UNCHANGED <<repeats, retry_on_error, script>>
    /\ UNCHANGED <<connVars, execVars, oneVars, schemaVars, docVars, pagVars, cmpVars, mkVars, tblVars, valVars>>

NextOpt == OptimisticExhausted \/ OptimisticAttempt

(***************************************************************************)
(* connector.py: the process-wide connection and database handles          *)
(***************************************************************************)
\* Most connections constructed in one behaviour.
MaxConnections == 3

\* `_connection = None`
NoConnection == 0

\* `_db = None`; a database handle is connection[db]: the connection it belongs to and its name.
NoDb == [conn |-> 0, name |-> None]

DbNames == {"db1", "db2"}

\* connection[db]
DbHandle(conn, name) == [conn |-> conn, name |-> name]

NoCall == [op |-> None, reconnect |-> FALSE, raised |-> None,
           prevConnection |-> NoConnection, prevDb |-> NoDb, returned |-> NoConnection]

InitConn ==
    /\ _connection = NoConnection
    /\ _db = NoDb
    /\ created = 0
    /\ disconnected = {}
    /\ lastCall = NoCall

\* current_db(): raises when `_db` is None; the function has no return statement, so a
\* call that does not raise evaluates to None.
CurrentDbRaises(db) == db = NoDb
CurrentDbReturn(db) == NoDb

\* disconnect(): the global connection after the call.
DisconnectedConnection(conn) == NoConnection

\* disconnect(): the connections whose disconnect() method has been called, after the call.
DisconnectCalls(conn, done) == IF conn # NoConnection THEN done \cup {conn} ELSE done

\* get_connection(): `elif _connection is not None: raise ConnectionError(...)`.
AlreadyCreatedNeverRejects(reconnect, conn) == FALSE
AlreadyCreated(reconnect, conn) == ~reconnect /\ conn # NoConnection

\* get_connection(reconnect=..., **kwargs); createFails: connection_class(**kwargs) raises.
\* Gives the globals after the call and what the call raised or returned.
GetConnectionResult(reconnect, createFails, conn, done, n) ==
    IF AlreadyCreated(reconnect, conn)
    THEN [connection |-> conn, disconnected |-> done, created |-> n,
          raised |-> "ConnectionError", returned |-> NoConnection]
    ELSE LET conn1 == IF reconnect THEN DisconnectedConnection(conn) ELSE conn
             done1 == IF reconnect THEN DisconnectCalls(conn, done) ELSE done
         IN IF createFails
            THEN [connection |-> conn1, disconnected |-> done1, created |-> n,
                  raised |-> "ConnectionError", returned |-> NoConnection]
            ELSE [connection |-> n + 1, disconnected |-> done1, created |-> n + 1,
                  raised |-> None, returned |-> n + 1]

\* get_connection(**kwargs)
GetConnection(reconnect, createFails) ==
    /\ created < MaxConnections
    /\ LET r == GetConnectionResult(reconnect, createFails, _connection, disconnected, created)
       IN /\ _connection' = r.connection
          /\ disconnected' = r.disconnected
          /\ created' = r.created
          /\ lastCall' = [op |-> "get_connection", reconnect |-> reconnect, raised |-> r.raised,
                          prevConnection |-> _connection, prevDb |-> _db,
                          returned |-> r.returned]
    /\ UNCHANGED _db
    /\ UNCHANGED <<optVars, execVars, oneVars, schemaVars, docVars, pagVars, cmpVars, mkVars, tblVars, valVars>>

\* connect(db, **kwargs)
Connect(db, reconnect, createFails) ==
    /\ created < MaxConnections
    /\ LET r == GetConnectionResult(reconnect, createFails, _connection, disconnected, created)
       IN /\ _connection' = r.connection
          /\ disconnected' = r.disconnected
          /\ created' = r.created
          /\ _db' = IF r.raised = None THEN DbHandle(r.returned, db) ELSE _db
          /\ lastCall' = [op |-> "connect", reconnect |-> reconnect, raised |-> r.raised,
                          prevConnection |-> _connection, prevDb |-> _db,
                          returned |-> r.returned]
    /\ UNCHANGED <<optVars, execVars, oneVars, schemaVars, docVars, pagVars, cmpVars, mkVars, tblVars, valVars>>

\* disconnect()
Disconnect ==
    /\ _connection' = DisconnectedConnection(_connection)
    /\ disconnected' = DisconnectCalls(_connection, disconnected)
    /\ lastCall' = [op |-> "disconnect", reconnect |-> FALSE, raised |-> None,
                    prevConnection |-> _connection, prevDb |-> _db,
                    returned |-> NoConnection]
    /\ UNCHANGED <<_db, created>>
    /\ UNCHANGED <<optVars, execVars, oneVars, schemaVars, docVars, pagVars, cmpVars, mkVars, tblVars, valVars>>

(***************************************************************************)
(* manager.py: MotorOp.execute, MotorOp.bind                               *)
(***************************************************************************)
\* Most records a materialized cursor holds.
MaxRecords == 2

\* Raw records the driver returns; Collection.create raises a validation error on "bad".
RawDocs == {"r1", "r2", "bad"}

\* The operation descriptors MotorManager binds (one of each shape).
find == [action |-> "find", qualifier |-> "to_list", as_model |-> TRUE]
find_one == [action |-> "find_one", qualifier |-> None, as_model |-> TRUE]
count == [action |-> "find", qualifier |-> "count", as_model |-> FALSE]
insert == [action |-> "insert", qualifier |-> None, as_model |-> FALSE]

Ops == {find, find_one, count, insert}

\* Values a result can be: None, a list of raw records, one raw record, a number,
\* a list of Documents, one Document.
NoResult == [kind |-> "none"]
RawList(items) == [kind |-> "list", items |-> items]
RawOne(r) == [kind |-> "raw", raw |-> r]
Scalar(n) == [kind |-> "scalar", n |-> n]
DocList(items) == [kind |-> "docs", items |-> items]
DocOne(r) == [kind |-> "doc", raw |-> r]

SeqsUpTo(S, n) == UNION {[1..k -> S] : k \in 0..n}

\* What the driver can hand back at the yield point for a descriptor.
RawResults(op) ==
    IF op.qualifier = "to_list" THEN {RawList(q) : q \in SeqsUpTo(RawDocs, MaxRecords)}
    ELSE IF op.qualifier = "count" THEN {Scalar(n) : n \in 0..MaxRecords}
    ELSE IF op.action = "find_one" THEN {NoResult} \cup {RawOne(r) : r \in RawDocs}
    ELSE {Scalar(1)}

\* Collection.create(raw) as the executor sees it: it raises on a record that fails validation.
CreateRaises(raw) == raw = "bad"

\* BaseManager.create(data)
ManagerCreate(items) ==
    IF \E i \in 1..Len(items) : CreateRaises(items[i])
    THEN [raised |-> "ValueError", result |-> NoResult]
    ELSE [raised |-> None, result |-> DocList(items)]

\* BaseManager.create_one(data, hard)
ManagerCreateOne(data, hard) ==
    IF data.kind = "raw"
    THEN IF CreateRaises(data.raw)
         THEN [raised |-> "ValueError", result |-> NoResult]
         ELSE [raised |-> None, result |-> DocOne(data.raw)]
    ELSE IF data.kind = "scalar" /\ data.n # 0
    THEN [raised |-> "AttributeError", result |-> NoResult]
    ELSE IF hard
    THEN [raised |-> None, result |-> DocOne("empty")]
    ELSE [raised |-> None, result |-> NoResult]

\* The Map stage: `if as_model: ...`
MapResult(result, as_model, hard) ==
    IF ~as_model THEN [raised |-> None, result |-> result]
    ELSE IF result.kind = "list" THEN ManagerCreate(result.items)
    ELSE ManagerCreateOne(result, hard)

\* Setup: `db = kwargs.pop('db', None); if db is None: db = current_db();
\* dbc = db[manager.collection_name]`. The wrapper bind() returns passes its `db`
\* parameter on as the first positional argument, so execute finds no 'db' keyword.
ResolveDb(route, dbArg, curDb) ==
    LET kw == IF route = "bound" THEN NoDb ELSE dbArg
    IN IF kw # NoDb THEN [raised |-> None, db |-> kw]
       ELSE IF CurrentDbRaises(curDb) THEN [raised |-> "ConnectionError", db |-> NoDb]
       ELSE IF CurrentDbReturn(curDb) = NoDb THEN [raised |-> "TypeError", db |-> NoDb]
       ELSE [raised |-> None, db |-> CurrentDbReturn(curDb)]

\* `except Exception, e: callback(None, e)`; cbOnError: the callback raises on (None, e).
ExceptClauseReraises(e, cbOnError) == [calls |-> <<>>, propagated |-> e]
ExceptClause(e, cbOnError) ==
    [calls |-> <<[result |-> NoResult, error |-> e]>>,
     propagated |-> IF cbOnError THEN "CallbackError" ELSE None]

\* The end of execute: the try block raised `raised`, or reached `callback(result, None)`,
\* which is inside the try block; cbOnResult: the callback raises on (result, None).
Deliver(raised, result, cbOnResult, cbOnError) ==
    IF raised # None THEN ExceptClause(raised, cbOnError)
    ELSE IF cbOnResult
    THEN LET h == ExceptClause("CallbackError", cbOnError)
         IN [calls |-> <<[result |-> result, error |-> None]>> \o h.calls,
             propagated |-> h.propagated]
    ELSE [calls |-> <<[result |-> result, error |-> None]>>, propagated |-> None]

NoTarget == [db |-> NoDb, forwarded |-> NoDb, cursor |-> None]

NoInvocation == [op |-> insert, route |-> None, dbArg |-> NoDb, dbAtCall |-> NoDb,
                 hard |-> FALSE, modifier |-> None, cbOnResult |-> FALSE, cbOnError |-> FALSE]

InitExec ==
    /\ exPc = "idle"
    /\ ex = NoInvocation
    /\ target = NoTarget
    /\ calls = <<>>
    /\ propagated = None
    /\ failedStage = None

\* Database handles a caller holds itself (of a connection the connector does not manage).
CallerHandles == {DbHandle(-1, n) : n \in DbNames}

\* The cursor the qualifier runs on: `if cursor and modifier: ...`
ReshapedCursor(op, modifier) ==
    IF op.qualifier = None THEN None
    ELSE IF modifier = "returns_cursor" THEN "modified"
    ELSE "original"

\* execute() from its call to its first yield point: Setup, Dispatch, Cursor-reshape.
\* route "direct" is MotorOp.execute(manager, ..., db=dbArg, callback=cb); route "bound"
\* is the function bind() returns, called as manager.verb(dbArg, ..., callback=cb).
ExecuteCall(op, route, dbArg, hard, modifier, dispatchRaises, cbOnResult, cbOnError) ==
    /\ exPc = "idle"
    /\ ex' = [op |-> op, route |-> route, dbArg |-> dbArg, dbAtCall |-> _db, hard |-> hard,
              modifier |-> modifier, cbOnResult |-> cbOnResult, cbOnError |-> cbOnError]
    /\ LET r == ResolveDb(route, dbArg, _db)
           stage == IF r.raised # None THEN "setup"
                    ELSE IF dispatchRaises THEN "dispatch"
                    ELSE IF op.qualifier # None /\ modifier = "raises" THEN "reshape"
                    ELSE None
           e == IF r.raised # None THEN r.raised
                ELSE IF dispatchRaises THEN "OperationFailure"
                ELSE "ModifierError"
           d == Deliver(e, NoResult, cbOnResult, cbOnError)
       IN /\ target' = IF r.raised # None THEN NoTarget
                       ELSE [db |-> r.db,
                             forwarded |-> IF route = "bound" THEN dbArg ELSE NoDb,
                             cursor |-> IF stage = None THEN ReshapedCursor(op, modifier)
                                        ELSE None]
          /\ failedStage' = stage
          /\ IF stage = None
             THEN /\ exPc' = "waiting"
                  /\ UNCHANGED <<calls, propagated>>
             ELSE /\ exPc' = "done"
                  /\ calls' = d.calls
                  /\ propagated' = d.propagated
    /\ UNCHANGED <<optVars, connVars, oneVars, schemaVars, docVars, pagVars, cmpVars, mkVars, tblVars, valVars>>

\* execute() resumed at the yield point with an error: Materialize raised.
ExecuteResumeError ==
    /\ exPc = "waiting"
    /\ exPc' = "done"
    /\ failedStage' = "materialize"
    /\ LET d == Deliver("OperationFailure", NoResult, ex.cbOnResult, ex.cbOnError)
       IN calls' = d.calls /\ propagated' = d.propagated
    /\ UNCHANGED <<ex, target>>
    /\ UNCHANGED <<optVars, connVars, oneVars, schemaVars, docVars, pagVars, cmpVars, mkVars, tblVars, valVars>>

\* execute() resumed at the yield point with the driver's result: Map, Deliver.
ExecuteResume(result) ==
    /\ exPc = "waiting"
    /\ exPc' = "done"
    /\ LET m == MapResult(result, ex.op.as_model, ex.hard)
           d == Deliver(m.raised, m.result, ex.cbOnResult, ex.cbOnError)
       IN /\ failedStage' = IF m.raised # None THEN "map" ELSE None
          /\ calls' = d.calls
          /\ propagated' = d.propagated
    /\ UNCHANGED <<ex, target>>
    /\ UNCHANGED <<optVars, connVars, oneVars, schemaVars, docVars, pagVars, cmpVars, mkVars, tblVars, valVars>>

(***************************************************************************)
(* manager.py: MotorManager.one                                            *)
(***************************************************************************)
\* Concurrent invocations of one().
MaxOneCalls == 2

OneIds == 1..MaxOneCalls

NoDelivery == [result |-> NoResult, error |-> None]

InitOne ==
    /\ onePc = [i \in OneIds |-> "idle"]
    /\ oneFound = [i \in OneIds |-> NoDelivery]
    /\ oneCalls = [i \in OneIds |-> <<>>]
    /\ oneRaised = [i \in OneIds |-> None]
    /\ oneCb = [i \in OneIds |-> FALSE]

\* What the bound `find` descriptor (to_list, as_model) delivers to the callback
\* motor.Op gives it: (documents, None), or (None, error) for an error of any stage.
FindDeliveries ==
    {[result |-> MapResult(r, find.as_model, FALSE).result,
      error |-> MapResult(r, find.as_model, FALSE).raised] : r \in RawResults(find)}
    \cup {[result |-> NoResult, error |-> e] :
            e \in {"ConnectionError", "TypeError", "OperationFailure"}}

\* `if result and len(result) > 1:`
MultipleResultsMutant(result) == result.kind = "docs" /\ Len(result.items) > 2
MultipleResults(result) == result.kind = "docs" /\ Len(result.items) > 1

\* `result = result[0] if result else None`
FirstOrNone(result) ==
    IF result.kind = "docs" /\ Len(result.items) > 0 THEN DocOne(result.items[1]) ELSE NoResult

\* one(*args, callback=cb) up to `yield motor.Op(self.find, *args, **kwargs)`.
OneCall(i, cbRaises) ==
    /\ onePc[i] = "idle"
    /\ onePc' = [onePc EXCEPT ![i] = "waiting"]
    /\ oneCb' = [oneCb EXCEPT ![i] = cbRaises]
    /\ UNCHANGED <<oneFound, oneCalls, oneRaised>>
    /\ UNCHANGED <<optVars, connVars, execVars, schemaVars, docVars, pagVars, cmpVars, mkVars, tblVars, valVars>>

\* one() resumed with what find delivered: motor.Op raises a delivered error into the
\* generator; otherwise the length check and the callback.
OneResume(i, delivery) ==
    /\ onePc[i] = "waiting"
    /\ onePc' = [onePc EXCEPT ![i] = "done"]
    /\ oneFound' = [oneFound EXCEPT ![i] = delivery]
    /\ IF delivery.error # None
       THEN /\ oneRaised' = [oneRaised EXCEPT ![i] = delivery.error]
            /\ UNCHANGED oneCalls
       ELSE IF MultipleResults(delivery.result)
       THEN /\ oneRaised' = [oneRaised EXCEPT ![i] = "MultipleResults"]
            /\ UNCHANGED oneCalls
       ELSE /\ oneCalls' = [oneCalls EXCEPT
                               ![i] = <<[result |-> FirstOrNone(delivery.result),
                                         error |-> None]>>]
            /\ oneRaised' = [oneRaised EXCEPT
                                ![i] = IF oneCb[i] THEN "CallbackError" ELSE None]
    /\ UNCHANGED oneCb
    /\ UNCHANGED <<optVars, connVars, execVars, schemaVars, docVars, pagVars, cmpVars, mkVars, tblVars, valVars>>

NextOne ==
    \/ \E i \in OneIds, cbRaises \in BOOLEAN : OneCall(i, cbRaises)
    \/ \E i \in OneIds, delivery \in FindDeliveries : OneResume(i, delivery)

(***************************************************************************)
(* collection.py: CollectionMetaClass.__new__                              *)
(***************************************************************************)
\* Most schema types created in one behaviour (subclasses of Collection).
MaxTypes == 2

\* Attribute names a class body uses for its fields.
AttrNames == {"a", "b"}

\* A class attribute that is not a field.
NoField == [name |-> None, auto_now |-> FALSE]

\* Field objects a class body declares under attribute `attr`: Field(), Field(name=other),
\* DateTimeField(auto_now=True). `name` is the public name after
\* `if not attr.name: attr.name = attr_name`.
FieldDecls(attr) ==
    {[name |-> attr, auto_now |-> FALSE], [name |-> attr, auto_now |-> TRUE]}
    \cup {[name |-> n, auto_now |-> FALSE] : n \in AttrNames \ {attr}}

\* The `attrs` of a class body: per attribute name a field, or no field.
ClassBodies == {b \in [AttrNames -> {NoField} \cup UNION {FieldDecls(a) : a \in AttrNames}] :
                  \A a \in AttrNames : b[a] = NoField \/ b[a] \in FieldDecls(a)}

Range(q) == {q[i] : i \in 1..Len(q)}

\* C3 linearization, as type.__new__ computes a class's __mro__; <<0>> marks that no
\* consistent order exists (type.__new__ raises TypeError).
RECURSIVE Merge(_)
Merge(seqs) ==
    LET live == SelectSeq(seqs, LAMBDA q : Len(q) > 0)
        good == {i \in 1..Len(live) :
                    \A j \in 1..Len(live) : Head(live[i]) \notin Range(Tail(live[j]))}
    IN IF Len(live) = 0 THEN <<>>
       ELSE IF good = {} THEN <<0>>
       ELSE LET i == CHOOSE k \in good : \A m \in good : k <= m
                h == Head(live[i])
                rest == Merge([j \in 1..Len(live) |->
                                 IF Head(live[j]) = h THEN Tail(live[j]) ELSE live[j]])
            IN IF 0 \in Range(rest) THEN <<0>> ELSE <<h>> \o rest

\* The __mro__ of a new class `c` with the given bases (indices into `classes`); the
\* root Collection, which declares no field, is left out.
MroOf(c, bases, cls) ==
    LET rest == Merge([i \in 1..Len(bases) |-> cls[bases[i]].mro] \o <<bases>>)
    IN IF 0 \in Range(rest) THEN <<0>> ELSE <<c>> \o rest

\* getattr(cls, attr) for a class attribute: the first class of the __mro__ that has it.
ClassAttr(c, attr, cls) ==
    LET m == cls[c].mro
        hits == {i \in 1..Len(m) : cls[m[i]].attrs[attr] # NoField}
    IN IF hits = {} THEN NoField
       ELSE cls[m[CHOOSE i \in hits : \A j \in hits : i <= j]].attrs[attr]

\* Field.__get__(None, cls) returns the field; DateTimeField.__get__ then replaces the
\* value by utcnow() when auto_now is set, so isfield() does not see such a field.
IsFieldOnClass(f) == f # NoField /\ ~f.auto_now

\* inspect.getmembers(base, isfield): the public names of the fields it yields.
MemberNames(base, cls) ==
    {ClassAttr(base, a, cls).name : a \in {x \in AttrNames : IsFieldOnClass(ClassAttr(base, x, cls))}}

\* The public names of the fields a class body declares (`field_names` after the first loop).
DeclaredNames(body) == {body[a].name : a \in {x \in AttrNames : body[x] # NoField}}

\* The loop over `parents`: whether `attr.name in field_names` holds for some inherited
\* member, with field_names grown by the declared fields and the earlier bases' members.
MetaclassCollision(body, bases, cls) ==
    \E i \in 1..Len(bases) :
        MemberNames(bases[i], cls) \cap
            (DeclaredNames(body) \cup UNION {MemberNames(bases[j], cls) : j \in 1..(i - 1)}) # {}

\* Sequences of distinct created classes a class statement can name as its bases.
BaseLists(n) ==
    {<<>>} \cup {<<b>> : b \in 1..n}
    \cup {<<p[1], p[2]>> : p \in {q \in (1..n) \X (1..n) : q[1] # q[2]}}

NoDefinition == [attempted |-> FALSE, body |-> [a \in AttrNames |-> NoField], bases |-> <<>>,
                 raised |-> None, prevClasses |-> 0, prevRegistry |-> {}, prevManagers |-> {}]

InitSchema ==
    /\ classes = <<>>
    /\ __lazy_classes__ = {}
    /\ managers = {}
    /\ lastDefine = NoDefinition

\* `class <name>(bases): <body>` with the metaclass CollectionMetaClass; the new type is
\* the (Len(classes) + 1)-th one. A definition that raises creates nothing.
DefineType(body, bases) ==
    LET c == Len(classes) + 1
        mro == MroOf(c, bases, classes)
        raised == IF MetaclassCollision(body, bases, classes) THEN "TypeError"
                  ELSE IF mro = <<0>> THEN "TypeError"
                  ELSE None
    IN /\ raised = None => Len(classes) < MaxTypes
       /\ lastDefine' = [attempted |-> TRUE, body |-> body, bases |-> bases, raised |-> raised,
                         prevClasses |-> Len(classes), prevRegistry |-> __lazy_classes__,
                         prevManagers |-> managers]
       /\ IF raised = None
          THEN /\ classes' = Append(classes, [bases |-> bases, attrs |-> body, mro |-> mro])
               /\ __lazy_classes__' = __lazy_classes__ \cup {c}
               /\ managers' = managers \cup {c}
          ELSE UNCHANGED <<classes, __lazy_classes__, managers>>
       /\ UNCHANGED <<optVars, connVars, execVars, oneVars, docVars, pagVars, cmpVars, mkVars, tblVars, valVars>>

NextSchema == \E body \in ClassBodies, bases \in BaseLists(Len(classes)) : DefineType(body, bases)

(***************************************************************************)
(* collection.py, field.py: documents of a fixed set of schema classes     *)
(*                                                                         *)
(*   class Item(Collection):     label = StringField()                     *)
(*   class Owner(Collection):    items = ListField(Item)                   *)
(*                               child = EmbeddedDocumentField(Item)       *)
(*                               tags  = DictField(Item)                   *)
(*   class Profile(Collection):  _id  = ObjectIdField()                    *)
(*                               req  = Field(required=True)               *)
(*                               imm  = Field(default=7)                   *)
(*                               mut  = Field(default=[])                  *)
(*                               fac  = Field(default=list)                *)
(*                               faci = Field(default=int)                 *)
(*   class Counter(Collection):  n = IntegerField()                        *)
(*                               s = Field()                               *)
(*   class SubCounter(Counter):  t = Field()                               *)
(*   class Leaf(Collection):     key = Field(required=True)                *)
(*   class Mid(Collection):      key = Field(required=True)                *)
(*                               leaf = EmbeddedDocumentField(Leaf)        *)
(*                               leaves = ListField(Leaf)                  *)
(*   class Top(Mid):             code = Field(required=True)               *)
(*                               mid = EmbeddedDocumentField(Mid)          *)
(*                               mids = ListField(Mid)                     *)
(***************************************************************************)
SchemaClasses ==
    {"Collection", "Item", "Owner", "Profile", "Counter", "SubCounter", "Leaf", "Mid", "Top"}

\* cls.__mro__, up to Collection.
ClassMro(c) ==
    CASE c = "Collection" -> <<"Collection">>
      [] c = "SubCounter" -> <<"SubCounter", "Counter", "Collection">>
      [] c = "Top" -> <<"Top", "Mid", "Collection">>
      [] OTHER -> <<c, "Collection">>

\* The fields a class body declares, by attribute name.
DeclaredFields(c) ==
    CASE c = "Item" -> {"label"}
      [] c = "Owner" -> {"items", "child", "tags"}
      [] c = "Profile" -> {"_id", "req", "imm", "mut", "fac", "faci"}
      [] c = "Counter" -> {"n", "s"}
      [] c = "SubCounter" -> {"t"}
      [] c = "Leaf" -> {"key"}
      [] c = "Mid" -> {"key", "leaf", "leaves"}
      [] c = "Top" -> {"code", "mid", "mids"}
      [] OTHER -> {}

\* The Field objects: `required`, and the default: "none" for _DEFAULT, "value" for a
\* value, "factory" for a callable; `immutable` is isinstance(value, _IMMUTABLE_TYPES).
FieldDef(name) ==
    CASE name \in {"req", "key", "code"} ->
                [required |-> TRUE, default |-> "none", value |-> None, immutable |-> TRUE]
      [] name = "imm" -> [required |-> FALSE, default |-> "value", value |-> "7", immutable |-> TRUE]
      [] name = "mut" -> [required |-> FALSE, default |-> "value", value |-> "[]", immutable |-> FALSE]
      [] name = "fac" -> [required |-> FALSE, default |-> "factory", value |-> "[]", immutable |-> FALSE]
      [] name = "faci" -> [required |-> FALSE, default |-> "factory", value |-> "0", immutable |-> TRUE]
      [] OTHER -> [required |-> FALSE, default |-> "none", value |-> None, immutable |-> TRUE]

\* A class without a `__fields__` attribute of its own.
NotCached == [cached |-> FALSE, names |-> {}]

InitFields == fields = [c \in SchemaClasses |-> NotCached]

\* The loop of inspect_fields: the fields among dir(collection_class), inherited ones included.
VisibleFields(c) == UNION {DeclaredFields(ClassMro(c)[i]) : i \in 1..Len(ClassMro(c))}

\* hasattr(collection_class, '__fields__'): the attribute is looked up along the __mro__,
\* so a table cached on an ancestor counts.
HasFieldsAttr(c, cache) == \E i \in 1..Len(ClassMro(c)) : cache[ClassMro(c)[i]].cached

\* collection_class.__fields__: the table of the first class of the __mro__ that has one.
FieldsAttr(c, cache) ==
    LET m == ClassMro(c)
        i == CHOOSE k \in 1..Len(m) : cache[m[k]].cached /\ \A j \in 1..(k - 1) : ~cache[m[j]].cached
    IN cache[m[i]].names

\* inspect_fields(collection_class): the table returned, and the caches afterwards.
inspect_fields(c, cache) ==
    IF HasFieldsAttr(c, cache)
    THEN [table |-> FieldsAttr(c, cache), cache |-> cache]
    ELSE [table |-> VisibleFields(c),
          cache |-> [cache EXCEPT ![c] = [cached |-> TRUE, names |-> VisibleFields(c)]]]

\* Field.__get__(obj): the value an attribute read returns, given obj._data.
FieldGet(name, data) ==
    IF name \in DOMAIN data THEN data[name]
    ELSE IF FieldDef(name).default = "none" THEN None
    ELSE FieldDef(name).value

\* Field.__get__(obj): a default that is not of an immutable type is stored by __set__.
PersistsDefault(name, data) ==
    /\ name \notin DOMAIN data
    /\ FieldDef(name).default # "none"
    /\ ~FieldDef(name).immutable

\* obj._data after the attributes `names` have been read.
DataAfterReads(names, data) ==
    [n \in DOMAIN data \cup {m \in names : PersistsDefault(m, data)} |->
        IF n \in DOMAIN data THEN data[n] ELSE FieldDef(n).value]

\* Collection.as_dict(exclude_unset): `value = getattr(self, name)` comes first, then the
\* test `field.name not in self._data`; an empty `_id` is popped at the end.
as_dict(table, data, exclude_unset) ==
    LET after == DataAfterReads(table, data)
        kept == {n \in table :
                    ~(exclude_unset /\ ~FieldDef(n).required /\ n \notin DOMAIN after)}
        shown == {n \in kept : n = "_id" => FieldGet(n, data) # None}
    IN [n \in shown |-> FieldGet(n, data)]

NoProfile == [live |-> FALSE, data |-> <<>>, explicit |-> {}]

NoRead == [op |-> None, name |-> None, exclude_unset |-> FALSE, value |-> None, dict |-> <<>>]

InitProfile ==
    /\ profile = NoProfile
    /\ lastRead = NoRead

\* Any first use of a class's field table outside the calls modelled below:
\* keys(), `in`, validate() on an instance, show_help(cls).
InspectClass(c) ==
    /\ fields' = inspect_fields(c, fields).cache
    /\ fields' # fields
    /\ UNCHANGED <<profile, lastRead, docs>>
    /\ UNCHANGED <<optVars, connVars, execVars, oneVars, schemaVars, pagVars, cmpVars, mkVars, tblVars, valVars>>

\* Profile(**kwargs): __init__ sets `_data = {}` and update() assigns every keyword through
\* __setitem__, which raises KeyError for a name that is not in the field table.
ProfileNew(kwargs) ==
    /\ ~profile.live
    /\ LET r == inspect_fields("Profile", fields)
       IN /\ fields' = IF kwargs = {} THEN fields ELSE r.cache
          /\ profile' = IF kwargs \subseteq r.table
                        THEN [live |-> TRUE, data |-> [n \in kwargs |-> "u"], explicit |-> kwargs]
                        ELSE profile
    /\ profile' # profile
    /\ UNCHANGED <<lastRead, docs>>
    /\ UNCHANGED <<optVars, connVars, execVars, oneVars, schemaVars, pagVars, cmpVars, mkVars, tblVars, valVars>>

\* profile.<name>: Field.__get__
ProfileGet(name) ==
    /\ profile.live
    /\ lastRead' = [NoRead EXCEPT !.op = "get", !.name = name,
                                  !.value = FieldGet(name, profile.data)]
    /\ profile' = [profile EXCEPT !.data = DataAfterReads({name}, profile.data)]
    /\ UNCHANGED <<fields, docs>>
    /\ UNCHANGED <<optVars, connVars, execVars, oneVars, schemaVars, pagVars, cmpVars, mkVars, tblVars, valVars>>

\* profile.<name> = value: Field.__set__
ProfileSet(name) ==
    /\ profile.live
    /\ profile' = [profile EXCEPT
                      !.data = [n \in DOMAIN profile.data \cup {name} |->
                                   IF n = name THEN "u" ELSE profile.data[n]],
                      !.explicit = @ \cup {name}]
    /\ UNCHANGED <<fields, lastRead, docs>>
    /\ UNCHANGED <<optVars, connVars, execVars, oneVars, schemaVars, pagVars, cmpVars, mkVars, tblVars, valVars>>

\* profile.as_dict(exclude_unset)
ProfileAsDict(exclude_unset) ==
    /\ profile.live
    /\ LET r == inspect_fields("Profile", fields)
       IN /\ fields' = r.cache
          /\ lastRead' = [NoRead EXCEPT !.op = "as_dict", !.exclude_unset = exclude_unset,
                                        !.dict = as_dict(r.table, profile.data, exclude_unset)]
          /\ profile' = [profile EXCEPT !.data = DataAfterReads(r.table, profile.data)]
    /\ UNCHANGED docs
    /\ UNCHANGED <<optVars, connVars, execVars, oneVars, schemaVars, pagVars, cmpVars, mkVars, tblVars, valVars>>

NextDefault ==
    \/ InspectClass("Profile")
    \/ \E kwargs \in SUBSET DeclaredFields("Profile") : ProfileNew(kwargs)
    \/ \E name \in DeclaredFields("Profile") : ProfileGet(name)
    \/ \E name \in DeclaredFields("Profile") : ProfileSet(name)
    \/ \E exclude_unset \in BOOLEAN : ProfileAsDict(exclude_unset)


(***************************************************************************)
(* field.py: _ensure_type, _ensure_parent, ListField, EmbeddedDocumentField,*)
(* DictField on Owner and Item documents                                   *)
(***************************************************************************)
\* Most Owner and Item instances in one behaviour.
MaxDocs == 3

\* Longest list assigned to Owner.items.
MaxItems == 2

\* Raw inputs for an Item: the dicts {} and {'label': 'x'}.
RawItems == {[kind |-> "raw", label |-> None, id |-> 0], [kind |-> "raw", label |-> "x", id |-> 0]}

\* An existing document given as input.
DocInput(d) == [kind |-> "doc", label |-> None, id |-> d]

NewDoc(cls, label) ==
    [cls |-> cls, parent |-> 0, first |-> 0, origin |-> 0, label |-> label,
     items |-> <<>>, child |-> 0, tag |-> 0]

InitDocs == docs = <<>>

InitDoc == InitFields /\ InitProfile /\ InitDocs

\* `not getattr(item, _meta_field, None)`: a document is a DictMixin, so its truth value
\* is len(self.keys()) != 0, and keys() is the field table inspect_fields gives its class.
ParentUnset(ds, d, cache) ==
    \/ ds[d].parent = 0
    \/ inspect_fields(ds[ds[d].parent].cls, cache).table = {}

\* The caches after the truth value of item.__parent__ has been taken.
CacheAfterTruth(ds, d, cache) ==
    IF ds[d].parent = 0 THEN cache ELSE inspect_fields(ds[ds[d].parent].cls, cache).cache

\* _ensure_parent(item, parent) on the run state st = [docs, cache, raised, out].
EnsureParent(st, d, o) ==
    [st EXCEPT
        !.cache = CacheAfterTruth(st.docs, d, st.cache),
        !.docs = IF ParentUnset(st.docs, d, st.cache)
                 THEN [st.docs EXCEPT ![d].parent = o,
                                      ![d].first = IF @ = 0 THEN o ELSE @]
                 ELSE st.docs]

\* Item.create(raw): Item(**data); __setitem__ looks every key up in the field table
\* and raises KeyError for a name that is not in it. The new document is appended.
CreateItem(st, label, keys) ==
    LET r == IF keys = {} THEN [table |-> {}, cache |-> st.cache]
             ELSE inspect_fields("Item", st.cache)
    IN IF keys \subseteq r.table
       THEN [st EXCEPT !.cache = r.cache, !.docs = Append(st.docs, NewDoc("Item", label))]
       ELSE [st EXCEPT !.cache = r.cache, !.raised = "KeyError"]

\* validate_item(item, obj): _ensure_parent(_ensure_type(item, item_type), obj). An Item
\* instance is kept; a raw dict goes through Item.create. The item is added to st.out.
ValidateItem(st, v, o) ==
    IF st.raised # None THEN st
    ELSE IF v.kind = "doc"
    THEN [EnsureParent(st, v.id, o) EXCEPT !.out = Append(@, v.id)]
    ELSE LET c == CreateItem(st, v.label, IF v.label = None THEN {} ELSE {"label"})
             d == Len(c.docs)
         IN IF c.raised # None THEN c
            ELSE [EnsureParent([c EXCEPT !.docs[d].origin = o], d, o) EXCEPT !.out = Append(@, d)]

\* `[self.validate_item(v, obj) for v in value]`
RECURSIVE ValidateItems(_, _, _)
ValidateItems(st, values, o) ==
    IF values = <<>> THEN st
    ELSE ValidateItems(ValidateItem(st, Head(values), o), Tail(values), o)

\* EmbeddedDocumentField.validate(value, obj): Field.validate turns a value that is not a
\* dict into dict(value), which for a document is {name: value.name} over its field
\* table; then document_type.create builds a new Item and _ensure_parent attaches it.
ValidateEmbedded(st, v, o) ==
    IF v.kind = "raw" THEN ValidateItem(st, v, o)
    ELSE LET r == inspect_fields("Item", st.cache)
             asDict == [kind |-> "raw", id |-> 0,
                        label |-> IF "label" \in r.table THEN st.docs[v.id].label ELSE None]
             c == CreateItem([st EXCEPT !.cache = r.cache], asDict.label, r.table)
             d == Len(c.docs)
         IN IF c.raised # None THEN c
            ELSE [EnsureParent([c EXCEPT !.docs[d].origin = o], d, o) EXCEPT !.out = Append(@, d)]

\* DictField.validate(value, obj): only the values that are not Item instances go
\* through validate_item.
ValidateDictValue(st, v, o) ==
    IF v.kind = "doc" THEN [st EXCEPT !.out = Append(@, v.id)]
    ELSE ValidateItem(st, v, o)

Run(ds, cache) == [docs |-> ds, cache |-> cache, raised |-> None, out |-> <<>>]

ItemIds == {d \in 1..Len(docs) : docs[d].cls = "Item"}
OwnerIds == {d \in 1..Len(docs) : docs[d].cls = "Owner"}
Inputs == RawItems \cup {DocInput(d) : d \in ItemIds}
RawCount(values) == Cardinality({i \in 1..Len(values) : values[i].kind = "raw"})

\* Owner() or Item(): construction without data.
NewDocument(cls) ==
    /\ Len(docs) < MaxDocs
    /\ docs' = Append(docs, NewDoc(cls, None))
    /\ UNCHANGED <<fields, profile, lastRead>>
    /\ UNCHANGED <<optVars, connVars, execVars, oneVars, schemaVars, pagVars, cmpVars, mkVars, tblVars, valVars>>

\* owner.items = values: Field.__set__ stores ListField.validate(values, owner); an
\* exception leaves `_data` as it was, but not the items already handled.
AssignList(o, values) ==
    /\ Len(docs) + RawCount(values) <= MaxDocs
    /\ LET r == ValidateItems(Run(docs, fields), values, o)
       IN /\ fields' = r.cache
          /\ docs' = IF r.raised = None THEN [r.docs EXCEPT ![o].items = r.out] ELSE r.docs
    /\ UNCHANGED <<profile, lastRead>>
    /\ UNCHANGED <<optVars, connVars, execVars, oneVars, schemaVars, pagVars, cmpVars, mkVars, tblVars, valVars>>

\* owner.child = value: EmbeddedDocumentField
AssignEmbedded(o, v) ==
    /\ Len(docs) < MaxDocs
    /\ LET r == ValidateEmbedded(Run(docs, fields), v, o)
       IN /\ fields' = r.cache
          /\ docs' = IF r.raised = None THEN [r.docs EXCEPT ![o].child = r.out[1]] ELSE r.docs
    /\ UNCHANGED <<profile, lastRead>>
    /\ UNCHANGED <<optVars, connVars, execVars, oneVars, schemaVars, pagVars, cmpVars, mkVars, tblVars, valVars>>

\* owner.tags = {'k': value}: DictField
AssignDict(o, v) ==
    /\ Len(docs) + RawCount(<<v>>) <= MaxDocs
    /\ LET r == ValidateDictValue(Run(docs, fields), v, o)
       IN /\ fields' = r.cache
          /\ docs' = IF r.raised = None THEN [r.docs EXCEPT ![o].tag = r.out[1]] ELSE r.docs
    /\ UNCHANGED <<profile, lastRead>>
    /\ UNCHANGED <<optVars, connVars, execVars, oneVars, schemaVars, pagVars, cmpVars, mkVars, tblVars, valVars>>

NextParent ==
    \/ \E c \in {"Collection", "Owner", "Item"} : InspectClass(c)
    \/ \E cls \in {"Owner", "Item"} : NewDocument(cls)
    \/ \E o \in OwnerIds, values \in SeqsUpTo(Inputs, MaxItems) : AssignList(o, values)
    \/ \E o \in OwnerIds, v \in Inputs : AssignEmbedded(o, v)
    \/ \E o \in OwnerIds, v \in Inputs : AssignDict(o, v)

(***************************************************************************)
(* utils.py: Paginator                                                     *)
(***************************************************************************)
\* Largest page, per_page and total_count a Paginator is built with.
MaxPage == 13
MaxPerPage == 3
MaxTotal == 13

NoPaginator == [page |-> -1, per_page |-> 0, total_count |-> 0]
NoPagRead == [prop |-> None, int |-> 0, bool |-> FALSE, pages |-> <<>>]

InitPag ==
    /\ paginator = NoPaginator
    /\ pagRead = NoPagRead

\* int(math.ceil(float(a) / b)) for a >= 0, b >= 1; the quotient of two integers of
\* this size is not rounded to a whole number unless b divides a.
CeilOfQuotient(a, b) == IF a % b = 0 THEN a \div b ELSE (a \div b) + 1

page_count(p) == CeilOfQuotient(p.total_count, p.per_page)

current_page(p) ==
    IF p.page <= 0 THEN 1
    ELSE IF p.page > page_count(p) THEN page_count(p)
    ELSE p.page

skip(p) == (current_page(p) - 1) * p.per_page

limit(p) == p.per_page

last(p) == current_page(p) = page_count(p)

first(p) == current_page(p) = 1

\* range(1, self.page_count + 1)
page_range(p) == [i \in 1..page_count(p) |-> i]

\* s[lo:hi] on a list: 0-based, hi exclusive, a negative index counts from the end,
\* both ends clamped to the list.
PyIndex(s, i) ==
    IF i < 0 THEN (IF Len(s) + i < 0 THEN 0 ELSE Len(s) + i)
    ELSE IF i > Len(s) THEN Len(s) ELSE i
PySlice(s, lo, hi) == SubSeq(s, PyIndex(s, lo) + 1, PyIndex(s, hi))

range_len == 10
half_range == CeilOfQuotient(range_len, 2)

iterate_pages(p) ==
    IF page_count(p) < range_len THEN page_range(p)
    ELSE IF current_page(p) < half_range THEN PySlice(page_range(p), 0, range_len)
    ELSE IF page_count(p) - current_page(p) < half_range
         THEN PySlice(page_range(p), -range_len, page_count(p))
    ELSE PySlice(page_range(p), current_page(p) - half_range, current_page(p) + half_range - 1)

IntProps == {"page_count", "current_page", "skip", "limit"}
BoolProps == {"last", "first"}

IntProp(p, prop) ==
    CASE prop = "page_count" -> page_count(p)
      [] prop = "current_page" -> current_page(p)
      [] prop = "skip" -> skip(p)
      [] prop = "limit" -> limit(p)

BoolProp(p, prop) ==
    CASE prop = "last" -> last(p)
      [] prop = "first" -> first(p)

\* Paginator(page, per_page, total_count)
PaginatorNew(page, per_page, total_count) ==
    /\ paginator = NoPaginator
    /\ paginator' = [page |-> page, per_page |-> per_page, total_count |-> total_count]
    /\ pagRead' = NoPagRead
    /\ UNCHANGED <<optVars, connVars, execVars, oneVars, schemaVars, docVars, cmpVars, mkVars, tblVars, valVars>>

\* paginator.<prop>
PaginatorRead(prop) ==
    /\ paginator # NoPaginator
    /\ pagRead' = IF prop \in IntProps
                  THEN [NoPagRead EXCEPT !.prop = prop, !.int = IntProp(paginator, prop)]
                  ELSE [NoPagRead EXCEPT !.prop = prop, !.bool = BoolProp(paginator, prop)]
    /\ UNCHANGED paginator
    /\ UNCHANGED <<optVars, connVars, execVars, oneVars, schemaVars, docVars, cmpVars, mkVars, tblVars, valVars>>

\* paginator.iterate_pages()
PaginatorIteratePages ==
    /\ paginator # NoPaginator
    /\ pagRead' = [NoPagRead EXCEPT !.prop = "iterate_pages", !.pages = iterate_pages(paginator)]
    /\ UNCHANGED paginator
    /\ UNCHANGED <<optVars, connVars, execVars, oneVars, schemaVars, docVars, cmpVars, mkVars, tblVars, valVars>>

NextPag ==
    \/ \E page \in 0..MaxPage, per_page \in 1..MaxPerPage, total_count \in 0..MaxTotal :
            PaginatorNew(page, per_page, total_count)
    \/ \E prop \in IntProps \cup BoolProps : PaginatorRead(prop)
    \/ PaginatorIteratePages

(***************************************************************************)
(* collection.py: DocumentMixin.__hash__, __eq__, __ne__                   *)
(***************************************************************************)
\* Identifier values; hash() of two different identifiers may or may not differ.
Oids == {"oid1", "oid2", "oid3"}
HashOf(id) == CASE id = "oid1" -> 1 [] id = "oid2" -> 2 [] OTHER -> 2

\* Classes of the compared instances: Profile declares `_id`, Item does not.
CmpClasses == {"Profile", "Item"}

NoInstance == [cls |-> None, _id |-> None]
NoCmp == [op |-> None, left |-> 0, right |-> 0, bool |-> FALSE, int |-> 0, raised |-> None]

InitCmp ==
    /\ pair = [i \in 1..2 |-> NoInstance]
    /\ cmpRead = NoCmp

\* getattr(self, '_id') raises AttributeError when the class has no such attribute.
HasIdAttr(doc) == "_id" \in DeclaredFields(doc.cls)

\* __eq__(self, other): the value and what it raises. Both self_id and other_id are
\* read from self.
EqOtherId(self, other) == self._id
DocumentEq(self, other) ==
    IF other.cls # self.cls THEN [bool |-> FALSE, raised |-> None]
    ELSE IF ~HasIdAttr(self) THEN [bool |-> FALSE, raised |-> "AttributeError"]
    ELSE LET self_id == self._id
             other_id == EqOtherId(self, other)
         IN IF self_id # None \/ other_id # None
            THEN [bool |-> self_id = other_id, raised |-> None]
            ELSE [bool |-> FALSE, raised |-> None]

\* __hash__(self)
DocumentHash(self) ==
    IF HasIdAttr(self) /\ self._id # None
    THEN [int |-> HashOf(self._id), raised |-> None]
    ELSE [int |-> 0, raised |-> "NotImplementedError"]

\* a = cls() or cls(_id=id)
CmpNew(i, cls, id) ==
    /\ pair[i] = NoInstance
    /\ id # None => "_id" \in DeclaredFields(cls)
    /\ pair' = [pair EXCEPT ![i] = [cls |-> cls, _id |-> id]]
    /\ cmpRead' = NoCmp
    /\ UNCHANGED <<optVars, connVars, execVars, oneVars, schemaVars, docVars, pagVars, mkVars, tblVars, valVars>>

\* pair[i] == pair[j]
CmpEq(i, j) ==
    /\ pair[i] # NoInstance /\ pair[j] # NoInstance
    /\ LET r == DocumentEq(pair[i], pair[j])
       IN cmpRead' = [NoCmp EXCEPT !.op = "eq", !.left = i, !.right = j,
                                   !.bool = r.bool, !.raised = r.raised]
    /\ UNCHANGED pair
    /\ UNCHANGED <<optVars, connVars, execVars, oneVars, schemaVars, docVars, pagVars, mkVars, tblVars, valVars>>

\* pair[i] != pair[j]: not self.__eq__(other)
CmpNe(i, j) ==
    /\ pair[i] # NoInstance /\ pair[j] # NoInstance
    /\ LET r == DocumentEq(pair[i], pair[j])
       IN cmpRead' = [NoCmp EXCEPT !.op = "ne", !.left = i, !.right = j,
                                   !.bool = (r.raised = None /\ ~r.bool), !.raised = r.raised]
    /\ UNCHANGED pair
    /\ UNCHANGED <<optVars, connVars, execVars, oneVars, schemaVars, docVars, pagVars, mkVars, tblVars, valVars>>

\* hash(pair[i])
CmpHash(i) ==
    /\ pair[i] # NoInstance
    /\ LET r == DocumentHash(pair[i])
       IN cmpRead' = [NoCmp EXCEPT !.op = "hash", !.left = i, !.int = r.int, !.raised = r.raised]
    /\ UNCHANGED pair
    /\ UNCHANGED <<optVars, connVars, execVars, oneVars, schemaVars, docVars, pagVars, mkVars, tblVars, valVars>>

NextCmp ==
    \/ \E i \in 1..2, cls \in CmpClasses, id \in Oids \cup {None} : CmpNew(i, cls, id)
    \/ \E i \in 1..2, j \in 1..2 : CmpEq(i, j)
    \/ \E i \in 1..2, j \in 1..2 : CmpNe(i, j)
    \/ \E i \in 1..2 : CmpHash(i)

(***************************************************************************)
(* collection.py: Collection.create, Collection.__init__,                  *)
(* DocumentMixin.__setitem__; field.py: Field.validate, _ensure_type       *)
(***************************************************************************)
\* Most entries of a raw mapping given to create.
MaxEntries == 2

\* Keys of a raw mapping: the field names 'n' and 's', the name 'zz' that is no field of
\* Counter, and the unicode key u'n\xe9', which str() cannot encode.
RawKeys == {"n", "s", "zz", "u'n\\xe9'"}

\* Values of a raw mapping: the int 1, the str '2', the str 'abc'.
RawValues == {"1", "'2'", "'abc'"}

\* str(name): the str, or the exception raised.
StrOf(name) ==
    IF name = "u'n\\xe9'" THEN [value |-> None, raised |-> "UnicodeEncodeError"]
    ELSE [value |-> name, raised |-> None]

\* field_type of the fields of Counter: int for the IntegerField n.
FieldType(name) == IF name = "n" THEN "int" ELSE None

\* _ensure_type(value, int): an int is kept, otherwise int(value).
EnsureInt(value) ==
    CASE value = "1" -> [value |-> "1", raised |-> None]
      [] value = "'2'" -> [value |-> "2", raised |-> None]
      [] OTHER -> [value |-> None, raised |-> "ValueError"]

\* Field.validate(value): coercion to field_type; a TypeError becomes a ValueError, any
\* other exception of the cast is let through.
FieldValidate(name, value) ==
    IF FieldType(name) = "int" THEN EnsureInt(value)
    ELSE [value |-> value, raised |-> None]

\* The raw mappings, as the sequence of entries their iteration gives.
RawEntries == [key : RawKeys, value : RawValues]
RawMappings ==
    {q \in SeqsUpTo(RawEntries, MaxEntries) :
        \A i, j \in 1..Len(q) : i # j => q[i].key # q[j].key}

\* The loop of create: `data[str(name)] = value` inside try/except; the exception is
\* raised again only when strict. st = [data, raised].
StrictReraises(strict) == strict
RECURSIVE CopyEntries(_, _, _)
CopyEntries(raw, strict, st) ==
    IF raw = <<>> \/ st.raised # None THEN st
    ELSE LET e == Head(raw)
             k == StrOf(e.key)
         IN IF k.raised = None
            THEN CopyEntries(Tail(raw), strict,
                             [st EXCEPT !.data = Append(@, [key |-> k.value, value |-> e.value])])
            ELSE IF StrictReraises(strict)
            THEN [st EXCEPT !.raised = k.raised]
            ELSE CopyEntries(Tail(raw), strict, st)

\* cls(**data): __init__ calls update, which sets self[name] = value per entry;
\* __setitem__ looks the name up in the field table and assigns the attribute, and
\* Field.__set__ stores the validated value. st = [store, cache, raised].
RECURSIVE UpdateEntries(_, _, _)
UpdateEntries(c, data, st) ==
    IF data = <<>> \/ st.raised # None THEN st
    ELSE LET e == Head(data)
             r == inspect_fields(c, st.cache)
             v == FieldValidate(e.key, e.value)
         IN IF e.key \notin r.table
            THEN [st EXCEPT !.cache = r.cache, !.raised = "KeyError"]
            ELSE IF v.raised # None
            THEN [st EXCEPT !.cache = r.cache, !.raised = v.raised]
            ELSE UpdateEntries(c, Tail(data),
                               [st EXCEPT !.cache = r.cache,
                                          !.store = [n \in DOMAIN @ \cup {e.key} |->
                                                        IF n = e.key THEN v.value ELSE @[n]]])

NoStore == [n \in {} |-> None]
NoCreate == [op |-> None, raw |-> <<>>, strict |-> FALSE, raised |-> None, data |-> NoStore]

InitCreate == createCall = NoCreate

\* Counter.create(raw, strict)
Create(raw, strict) ==
    LET copied == CopyEntries(raw, strict, [data |-> <<>>, raised |-> None])
        built == UpdateEntries("Counter", copied.data,
                               [store |-> NoStore, cache |-> fields, raised |-> None])
    IN /\ IF copied.raised # None
          THEN /\ createCall' = [NoCreate EXCEPT !.op = "create", !.raw = raw, !.strict = strict,
                                                 !.raised = copied.raised]
               /\ UNCHANGED fields
          ELSE /\ createCall' = [NoCreate EXCEPT !.op = "create", !.raw = raw, !.strict = strict,
                                                 !.raised = built.raised,
                                                 !.data = IF built.raised = None THEN built.store
                                                          ELSE NoStore]
               /\ fields' = built.cache
       /\ UNCHANGED <<profile, lastRead, docs>>
       /\ UNCHANGED <<optVars, connVars, execVars, oneVars, schemaVars, pagVars, cmpVars, tblVars, valVars>>

NextCreate ==
    \/ \E raw \in RawMappings, strict \in BOOLEAN : Create(raw, strict)
    \/ InspectClass("Counter")

(***************************************************************************)
(* collection.py: inspect_fields as called by validate, as_dict, keys,     *)
(* __getitem__, __setitem__, __contains__                                  *)
(***************************************************************************)
NoTable == [cls |-> None, table |-> {}]

InitTable == lastTable = NoTable

\* inspect_fields(cls) for any class of the hierarchy, in any order.
FieldsOf(c) ==
    /\ LET r == inspect_fields(c, fields)
       IN /\ fields' = r.cache
          /\ lastTable' = [cls |-> c, table |-> r.table]
    /\ UNCHANGED <<profile, lastRead, docs>>
    /\ UNCHANGED <<optVars, connVars, execVars, oneVars, schemaVars, pagVars, cmpVars, mkVars, valVars>>

NextTable == \E c \in SchemaClasses : FieldsOf(c)

(***************************************************************************)
(* collection.py: Collection.validate on a Top document with embedded Mid  *)
(* and Leaf documents                                                      *)
(***************************************************************************)
\* Longest list assigned to Top.mids and given for Mid.leaves.
MaxList == 1

\* Raw Leaf and Mid mappings: `key` says whether the mapping has a 'key' entry; an
\* embedded document is a sequence of at most one mapping (none: no entry), a list of
\* documents a sequence (empty: no entry). A document built from them has this shape too.
RawLeaves == [key : BOOLEAN]
RawMids == [key : BOOLEAN, leaf : SeqsUpTo(RawLeaves, 1), leaves : SeqsUpTo(RawLeaves, MaxList)]

NoTop == [live |-> FALSE, key |-> FALSE, code |-> FALSE, mid |-> <<>>, mids |-> <<>>]
NoValidate == [op |-> None, flag |-> FALSE, raised |-> None, missing |-> {}]

InitValidate ==
    /\ top = NoTop
    /\ lastValidate = NoValidate

\* The keys of a raw Mid mapping.
MidKeys(raw) ==
    (IF raw.key THEN {"key"} ELSE {})
        \cup (IF raw.leaf # <<>> THEN {"leaf"} ELSE {})
        \cup (IF raw.leaves # <<>> THEN {"leaves"} ELSE {})

\* Whether building the Mid builds a Leaf from a mapping that has entries.
LeafWithKeys(raw) ==
    \/ \E i \in 1..Len(raw.leaf) : raw.leaf[i].key
    \/ \E i \in 1..Len(raw.leaves) : raw.leaves[i].key

\* Mid.create(raw): Mid(**raw) sets every entry through __setitem__, which looks the
\* name up in Mid's field table; the leaf and leaves entries build Leaf documents the
\* same way. What is raised, and the caches afterwards.
CreateMid(raw, cache) ==
    IF MidKeys(raw) = {} THEN [raised |-> None, cache |-> cache]
    ELSE LET m == inspect_fields("Mid", cache)
             l == inspect_fields("Leaf", m.cache)
         IN IF ~(MidKeys(raw) \subseteq m.table) THEN [raised |-> "KeyError", cache |-> m.cache]
            ELSE IF ~LeafWithKeys(raw) THEN [raised |-> None, cache |-> m.cache]
            ELSE IF "key" \notin l.table THEN [raised |-> "KeyError", cache |-> l.cache]
            ELSE [raised |-> None, cache |-> l.cache]

RECURSIVE CreateMids(_, _)
CreateMids(raws, st) ==
    IF raws = <<>> \/ st.raised # None THEN st
    ELSE CreateMids(Tail(raws), CreateMid(Head(raws), st.cache))

\* The required fields of a table whose value is empty (None) on the document.
MissingOf(table, doc) == {n \in table : FieldDef(n).required /\ ~doc[n]}

\* value.validate() on an embedded Mid: validate_embedded keeps its default, False.
NestedFlag(flag) == FALSE

\* The Leaf documents validate(flag) on a Mid goes into.
LeavesVisited(mid, table, flag) ==
    IF ~flag THEN {}
    ELSE (IF "leaf" \in table THEN {mid.leaf[i] : i \in 1..Len(mid.leaf)} ELSE {})
          \cup (IF "leaves" \in table THEN {mid.leaves[i] : i \in 1..Len(mid.leaves)} ELSE {})

\* Mid.validate(flag): what it raises and lists, and the caches afterwards. An error of
\* a nested validate leaves the loop at once.
ValidateMid(mid, flag, cache) ==
    LET m == inspect_fields("Mid", cache)
        visited == LeavesVisited(mid, m.table, flag)
        l == IF visited = {} THEN m ELSE inspect_fields("Leaf", m.cache)
        bad == {d \in visited : MissingOf(l.table, d) # {}}
    IN IF bad # {} THEN [raised |-> "ValueError", missing |-> {"key"}, cache |-> l.cache]
       ELSE IF MissingOf(m.table, mid) # {}
       THEN [raised |-> "ValueError", missing |-> MissingOf(m.table, mid), cache |-> l.cache]
       ELSE [raised |-> None, missing |-> {}, cache |-> l.cache]

\* The Mid documents validate(flag) on the Top goes into.
MidsVisited(doc, table, flag) ==
    IF ~flag THEN <<>>
    ELSE (IF "mid" \in table THEN doc.mid ELSE <<>>) \o (IF "mids" \in table THEN doc.mids ELSE <<>>)

RECURSIVE ValidateMids(_, _, _)
ValidateMids(mids, flag, st) ==
    IF mids = <<>> \/ st.raised # None THEN st
    ELSE ValidateMids(Tail(mids), flag, ValidateMid(Head(mids), flag, st.cache))

\* Top.validate(validate_embedded=flag)
ValidateTop(doc, flag, cache) ==
    LET t == inspect_fields("Top", cache)
        nested == ValidateMids(MidsVisited(doc, t.table, flag), NestedFlag(flag),
                               [raised |-> None, missing |-> {}, cache |-> t.cache])
    IN IF nested.raised # None THEN nested
       ELSE IF MissingOf(t.table, doc) # {}
       THEN [raised |-> "ValueError", missing |-> MissingOf(t.table, doc), cache |-> nested.cache]
       ELSE [raised |-> None, missing |-> {}, cache |-> nested.cache]

\* t = Top()
TopNew ==
    /\ ~top.live
    /\ top' = [NoTop EXCEPT !.live = TRUE]
    /\ lastValidate' = NoValidate
    /\ UNCHANGED <<optVars, connVars, execVars, oneVars, schemaVars, docVars, pagVars, cmpVars,
                   mkVars, tblVars>>

\* t.key = value or t.code = value, the value not None
TopSetScalar(name) ==
    /\ top.live
    /\ top' = [top EXCEPT ![name] = TRUE]
    /\ lastValidate' = NoValidate
    /\ UNCHANGED <<optVars, connVars, execVars, oneVars, schemaVars, docVars, pagVars, cmpVars,
                   mkVars, tblVars>>

\* t.mid = raw: EmbeddedDocumentField.validate builds the document with Mid.create
TopSetMid(raw) ==
    /\ top.live
    /\ LET r == CreateMid(raw, fields)
       IN /\ fields' = r.cache
          /\ top' = IF r.raised = None THEN [top EXCEPT !.mid = <<raw>>] ELSE top
    /\ lastValidate' = NoValidate
    /\ UNCHANGED <<profile, lastRead, docs>>
    /\ UNCHANGED <<optVars, connVars, execVars, oneVars, schemaVars, pagVars, cmpVars,
                   mkVars, tblVars>>

\* t.mids = raws: ListField.validate builds every item with Mid.create
TopSetMids(raws) ==
    /\ top.live
    /\ LET r == CreateMids(raws, [raised |-> None, cache |-> fields])
       IN /\ fields' = r.cache
          /\ top' = IF r.raised = None THEN [top EXCEPT !.mids = raws] ELSE top
    /\ lastValidate' = NoValidate
    /\ UNCHANGED <<profile, lastRead, docs>>
    /\ UNCHANGED <<optVars, connVars, execVars, oneVars, schemaVars, pagVars, cmpVars,
                   mkVars, tblVars>>

\* t.validate(flag)
Validate(flag) ==
    /\ top.live
    /\ LET r == ValidateTop(top, flag, fields)
       IN /\ fields' = r.cache
          /\ lastValidate' = [op |-> "validate", flag |-> flag, raised |-> r.raised,
                              missing |-> r.missing]
    /\ UNCHANGED top
    /\ UNCHANGED <<profile, lastRead, docs>>
    /\ UNCHANGED <<optVars, connVars, execVars, oneVars, schemaVars, pagVars, cmpVars,
                   mkVars, tblVars>>

NextValidate ==
    \/ TopNew
    \/ \E name \in {"key", "code"} : TopSetScalar(name)
    \/ \E raw \in RawMids : TopSetMid(raw)
    \/ \E raws \in SeqsUpTo(RawMids, MaxList) : TopSetMids(raws)
    \/ \E flag \in BOOLEAN : Validate(flag)
    \/ \E c \in {"Collection", "Leaf", "Mid", "Top"} : InspectClass(c)

InitSpecOpt == InitOpt /\ InitConn /\ InitExec /\ InitOne /\ InitSchema /\ InitDoc /\ InitPag /\ InitCmp /\ InitCreate /\ InitTable /\ InitValidate

SpecOpt == InitSpecOpt /\ [][NextOpt]_vars

NextConn ==
    \/ \E reconnect \in BOOLEAN, createFails \in BOOLEAN : GetConnection(reconnect, createFails)
    \/ \E db \in DbNames, reconnect \in BOOLEAN, createFails \in BOOLEAN :
          Connect(db, reconnect, createFails)
    \/ Disconnect

InitSpecConn == IdleOpt /\ InitConn /\ InitExec /\ InitOne /\ InitSchema /\ InitDoc /\ InitPag /\ InitCmp /\ InitCreate /\ InitTable /\ InitValidate

SpecConn == InitSpecConn /\ [][NextConn]_vars

\* The executor, with the connector calls an application makes around its operations.
NextExec ==
    \/ \E db \in DbNames : Connect(db, FALSE, FALSE)
    \/ Disconnect
    \/ \E op \in Ops, route \in {"direct", "bound"}, dbArg \in CallerHandles \cup {NoDb},
          hard \in BOOLEAN, modifier \in {"absent", "returns_none", "returns_cursor", "raises"},
          dispatchRaises \in BOOLEAN, cbOnResult \in BOOLEAN, cbOnError \in BOOLEAN :
          ExecuteCall(op, route, dbArg, hard, modifier, dispatchRaises, cbOnResult, cbOnError)
    \/ ExecuteResumeError
    \/ \E result \in RawResults(ex.op) : ExecuteResume(result)

InitSpecExec == IdleOpt /\ InitConn /\ InitExec /\ InitOne /\ InitSchema /\ InitDoc /\ InitPag /\ InitCmp /\ InitCreate /\ InitTable /\ InitValidate

SpecExec == InitSpecExec /\ [][NextExec]_vars

InitSpecOne == IdleOpt /\ InitConn /\ InitExec /\ InitOne /\ InitSchema /\ InitDoc /\ InitPag /\ InitCmp /\ InitCreate /\ InitTable /\ InitValidate

SpecOne == InitSpecOne /\ [][NextOne]_vars

InitSpecSchema == IdleOpt /\ InitConn /\ InitExec /\ InitOne /\ InitSchema /\ InitDoc /\ InitPag /\ InitCmp /\ InitCreate /\ InitTable /\ InitValidate

SpecSchema == InitSpecSchema /\ [][NextSchema]_vars

InitSpecDefault == IdleOpt /\ InitConn /\ InitExec /\ InitOne /\ InitSchema /\ InitDoc /\ InitPag /\ InitCmp /\ InitCreate /\ InitTable /\ InitValidate

SpecDefault == InitSpecDefault /\ [][NextDefault]_vars

InitSpecParent == IdleOpt /\ InitConn /\ InitExec /\ InitOne /\ InitSchema /\ InitDoc /\ InitPag /\ InitCmp /\ InitCreate /\ InitTable /\ InitValidate

SpecParent == InitSpecParent /\ [][NextParent]_vars

InitSpecPag == IdleOpt /\ InitConn /\ InitExec /\ InitOne /\ InitSchema /\ InitDoc /\ InitPag /\ InitCmp /\ InitCreate /\ InitTable /\ InitValidate

SpecPag == InitSpecPag /\ [][NextPag]_vars

InitSpecCmp == IdleOpt /\ InitConn /\ InitExec /\ InitOne /\ InitSchema /\ InitDoc /\ InitPag /\ InitCmp /\ InitCreate /\ InitTable /\ InitValidate

SpecCmp == InitSpecCmp /\ [][NextCmp]_vars

InitSpecCreate == IdleOpt /\ InitConn /\ InitExec /\ InitOne /\ InitSchema /\ InitDoc /\ InitPag /\ InitCmp /\ InitCreate /\ InitTable /\ InitValidate

SpecCreate == InitSpecCreate /\ [][NextCreate]_vars

InitSpecTable == IdleOpt /\ InitConn /\ InitExec /\ InitOne /\ InitSchema /\ InitDoc /\ InitPag /\ InitCmp /\ InitCreate /\ InitTable /\ InitValidate

SpecTable == InitSpecTable /\ [][NextTable]_vars

InitSpecValidate == IdleOpt /\ InitConn /\ InitExec /\ InitOne /\ InitSchema /\ InitDoc /\ InitPag /\ InitCmp /\ InitCreate /\ InitTable /\ InitValidate

SpecValidate == InitSpecValidate /\ [][NextValidate]_vars

(***************************************************************************)
(* Properties                                                              *)
(***************************************************************************)

\* The stages of the try block before Deliver.
StagesBeforeDeliver == {"setup", "dispatch", "reshape", "materialize", "map"}

C2_CallbackExactlyOnce ==
    exPc = "done" =>
        /\ Len(calls) = 1
        /\ \A i \in 1..Len(calls) : calls[i].error = None => i = Len(calls)

\* C3: a bound operation is dispatched against the explicit handle when one is passed,
\* otherwise against the current database handle when connect(db) has succeeded, and
\* otherwise ends with a connection-not-initialized error without dispatching a verb.
C3_DatabaseResolution ==
    (exPc # "idle" /\ ex.route = "bound") =>
        IF ex.dbArg # NoDb THEN target.db = ex.dbArg
        ELSE IF ex.dbAtCall # NoDb THEN target.db = ex.dbAtCall
        ELSE /\ target = NoTarget
             /\ calls = <<[result |-> NoResult, error |-> "ConnectionError"]>>

\* The action raises the retry signal on its first k invocations and succeeds afterwards.
RetriesThenSucceeds(k) ==
    \A i \in 1..MaxRepeats : script[i] = IF i <= k THEN "retry" ELSE "ok"

\* C4: for repeats n >= 1 and an action that raises the retry signal k times and then
\* succeeds, optimistic returns after exactly k+1 invocations when k < n, and raises the
\* retry signal from the n-th of exactly n invocations when k >= n; a finished call
\* invokes nothing more.
C4_RetrySignal ==
    \A k \in 0..MaxRepeats :
        (repeats >= 1 /\ RetriesThenSucceeds(k)) =>
            /\ invocations = attempt
            /\ invocations <= (IF k < repeats THEN k + 1 ELSE repeats)
            /\ optPc = "loop" => invocations <= k /\ invocations < repeats
            /\ optPc # "loop" =>
                  /\ ~ENABLED OptimisticAttempt
                  /\ IF k < repeats
                     THEN optPc = "returned" /\ invocations = k + 1
                     ELSE optPc = "raised_retry" /\ invocations = repeats

C4_Witness ==
    /\ repeats = 3
    /\ RetriesThenSucceeds(2)
    /\ optPc = "returned"
    /\ invocations = 3

\* C5: after an attempt that raised an exception other than the retry signal, the
\* exception has propagated from that attempt (and nothing more is invoked) when
\* retry_on_error is false or the attempt was number `repeats`; otherwise the action is
\* invoked again. The action is never invoked more than `repeats` times.
C5_OtherExceptions ==
    /\ invocations <= repeats
    /\ (attempt >= 1 /\ script[attempt] = "error") =>
          IF ~retry_on_error \/ attempt = repeats
          THEN optPc = "raised_error" /\ invocations = attempt /\ ~ENABLED OptimisticAttempt
          ELSE optPc = "loop" /\ ENABLED OptimisticAttempt

C5_Witness ==
    /\ repeats = 3
    /\ ~retry_on_error
    /\ attempt = 1
    /\ script[1] = "error"
    /\ optPc = "raised_error"
    /\ invocations = 1

\* C6: one() raises the multiple-results error without invoking the callback when find
\* yields two or more records, passes (Document, None) when it yields exactly one and
\* (None, None) when it yields none, and invokes the callback at most once.
C6_One ==
    \A i \in OneIds :
        /\ Len(oneCalls[i]) <= 1
        /\ (onePc[i] = "done" /\ oneFound[i].error = None) =>
              LET items == oneFound[i].result.items
              IN /\ Len(items) >= 2 =>
                      oneRaised[i] = "MultipleResults" /\ oneCalls[i] = <<>>
                 /\ Len(items) = 1 =>
                      oneCalls[i] = <<[result |-> DocOne(items[1]), error |-> None]>>
                 /\ Len(items) = 0 =>
                      oneCalls[i] = <<[result |-> NoResult, error |-> None]>>

C6_Witness ==
    \E i \in OneIds :
        /\ onePc[i] = "done"
        /\ oneFound[i] = [result |-> DocList(<<"r1", "r2">>), error |-> None]
        /\ oneRaised[i] = "MultipleResults"
        /\ oneCalls[i] = <<>>

\* C7: right after a get_connection/connect call made while a global connection existed:
\* without reconnect the call was rejected with a connection error and left the global
\* connection and the current database handle unchanged; with reconnect the existing
\* connection was disconnected first, and when the new connection was created the
\* global connection is that new one.
C7_ConnectionLifecycle ==
    (lastCall.op \in {"get_connection", "connect"} /\ lastCall.prevConnection # NoConnection) =>
        IF ~lastCall.reconnect
        THEN /\ lastCall.raised = "ConnectionError"
             /\ _connection = lastCall.prevConnection
             /\ _db = lastCall.prevDb
        ELSE /\ lastCall.prevConnection \in disconnected
             /\ _connection # lastCall.prevConnection
             /\ lastCall.raised = None =>
                   /\ _connection = lastCall.returned
                   /\ _connection = created
                   /\ _connection \notin disconnected

C7_Witness ==
    /\ lastCall.op = "connect"
    /\ lastCall.reconnect
    /\ lastCall.prevConnection = 1
    /\ lastCall.raised = None
    /\ _connection = 2
    /\ 1 \in disconnected

\* The public names of all fields a base carries, auto_now timestamps included.
InheritedNames(base, cls) ==
    {ClassAttr(base, a, cls).name : a \in {x \in AttrNames : ClassAttr(base, x, cls) # NoField}}

\* A declared field has the public name of a field inherited from some base, or two
\* bases each contribute a field with the same public name.
NameCollision(body, bases, cls) ==
    \/ \E i \in 1..Len(bases) : InheritedNames(bases[i], cls) \cap DeclaredNames(body) # {}
    \/ \E i, j \in 1..Len(bases) :
          i # j /\ InheritedNames(bases[i], cls) \cap InheritedNames(bases[j], cls) # {}

\* C9: a type definition with a name collision between a declared and an inherited field,
\* or between the fields of two bases, raises the definition error, creates no type,
\* registers nothing and binds no manager.
C9_CollisionRejected ==
    (lastDefine.attempted
        /\ NameCollision(lastDefine.body, lastDefine.bases,
                         SubSeq(classes, 1, lastDefine.prevClasses))) =>
        /\ lastDefine.raised = "TypeError"
        /\ Len(classes) = lastDefine.prevClasses
        /\ __lazy_classes__ = lastDefine.prevRegistry
        /\ managers = lastDefine.prevManagers

\* The optional fields of Profile that have a default: an immutable value, a mutable
\* container, a factory of a mutable value, a factory of an immutable value.
DefaultedFields == {"imm", "mut", "fac", "faci"}

\* C8: for an optional field B with default D that the caller never set, a read of B
\* returns D, as_dict(exclude_unset=true) omits B and as_dict() includes B with value D,
\* whatever reads and as_dict calls came before.
C8_UnsetOptionalField ==
    \A B \in DefaultedFields \ profile.explicit :
        /\ (lastRead.op = "get" /\ lastRead.name = B) => lastRead.value = FieldDef(B).value
        /\ (lastRead.op = "as_dict" /\ lastRead.exclude_unset) => B \notin DOMAIN lastRead.dict
        /\ (lastRead.op = "as_dict" /\ ~lastRead.exclude_unset) =>
              (B \in DOMAIN lastRead.dict /\ lastRead.dict[B] = FieldDef(B).value)

\* C10: an item produced from raw input carries a back-reference to the owner it was
\* first validated under, and a back-reference, once set, keeps its first value.
C10_ParentSetOnce ==
    \A d \in 1..Len(docs) :
        /\ docs[d].origin # 0 => docs[d].parent = docs[d].origin
        /\ docs[d].first # 0 => docs[d].parent = docs[d].first

\* C11: for page, per_page >= 1 and total_count >= 0: page_count is the ceiling of
\* total_count / per_page, current_page lies in 1..page_count, skip is
\* (current_page - 1) * per_page and not negative, limit is per_page, first holds iff
\* current_page = 1, last holds iff current_page = page_count.
Ceiling(a, b) == CHOOSE n \in 0..a : n * b >= a /\ (n = 0 \/ (n - 1) * b < a)

C11_Paginator ==
    (paginator # NoPaginator /\ paginator.page >= 1) =>
        LET pc == Ceiling(paginator.total_count, paginator.per_page)
            cp == current_page(paginator)
        IN /\ pagRead.prop = "page_count" => pagRead.int = pc
           /\ pagRead.prop = "current_page" => (1 <= pagRead.int /\ pagRead.int <= pc)
           /\ pagRead.prop = "skip" => (pagRead.int = (cp - 1) * paginator.per_page /\ pagRead.int >= 0)
           /\ pagRead.prop = "limit" => pagRead.int = paginator.per_page
           /\ pagRead.prop = "first" => (pagRead.bool <=> cp = 1)
           /\ pagRead.prop = "last" => (pagRead.bool <=> cp = pc)

\* C15: iterate_pages gives 1..page_count when page_count <= 10; otherwise exactly 10
\* consecutive page numbers within 1..page_count that include current_page, starting at
\* 1 when current_page is near the beginning and ending at page_count near the end.
C15_IteratePages ==
    (paginator # NoPaginator /\ paginator.page >= 1 /\ pagRead.prop = "iterate_pages") =>
        LET pc == page_count(paginator)
            cp == current_page(paginator)
            r == pagRead.pages
        IN IF pc <= 10 THEN r = [i \in 1..pc |-> i]
           ELSE /\ Len(r) = 10
                /\ \A i \in 1..(Len(r) - 1) : r[i + 1] = r[i] + 1
                /\ r[1] >= 1 /\ r[Len(r)] <= pc
                /\ \E i \in 1..Len(r) : r[i] = cp
                /\ cp < 5 => r[1] = 1
                /\ pc - cp < 5 => r[Len(r)] = pc

\* C12: for two instances a, b of one schema with an identifier field, a == b exactly
\* when a's identifier is set and equal to b's; hashing an instance without identifier
\* fails; instances that compare equal have equal hashes.
C12_EqualityByIdentifier ==
    LET a == pair[cmpRead.left]
        b == pair[cmpRead.right]
    IN /\ (cmpRead.op = "eq" /\ a.cls = b.cls /\ HasIdAttr(a)) =>
              /\ cmpRead.raised = None
              /\ cmpRead.bool <=> (a._id # None /\ a._id = b._id)
              /\ cmpRead.bool => (/\ DocumentHash(a).raised = None
                                  /\ DocumentHash(b).raised = None
                                  /\ DocumentHash(a).int = DocumentHash(b).int)
       /\ (cmpRead.op = "hash" /\ a._id = None) => cmpRead.raised # None

\* C13: for a raw mapping whose keys name fields, create(raw, strict=false) does not
\* raise because of an entry whose key or value cannot be coerced: it returns an instance
\* built from the other entries; create(raw, strict=true) raises when some entry has an
\* uncoercible key or value.
Uncoercible(e) ==
    \/ StrOf(e.key).raised # None
    \/ (StrOf(e.key).raised = None /\ FieldValidate(e.key, e.value).raised # None)
KnownKeys(raw) ==
    \A i \in 1..Len(raw) : StrOf(raw[i].key).raised = None => raw[i].key \in {"n", "s"}

C13_CreateStrict ==
    (createCall.op = "create" /\ KnownKeys(createCall.raw)) =>
        LET raw == createCall.raw
            kept == {i \in 1..Len(raw) : ~Uncoercible(raw[i])}
        IN /\ ~createCall.strict =>
                 /\ createCall.raised = None
                 /\ DOMAIN createCall.data = {raw[i].key : i \in kept}
                 /\ \A i \in kept :
                        createCall.data[raw[i].key] = FieldValidate(raw[i].key, raw[i].value).value
           /\ (createCall.strict /\ kept # 1..Len(raw)) => createCall.raised # None

\* C14: whatever the order in which the field tables of the classes of a hierarchy are
\* requested, the table returned for a class holds exactly the fields it declares plus
\* the fields its ancestors declare.
Ancestors(c) == {ClassMro(c)[i] : i \in 2..Len(ClassMro(c))}
DeclaredAndInherited(c) == DeclaredFields(c) \cup UNION {DeclaredFields(b) : b \in Ancestors(c)}

C14_FieldTable ==
    lastTable.cls # None => lastTable.table = DeclaredAndInherited(lastTable.cls)

\* C16: validate() raises iff some required field of the document (declared or
\* inherited) is empty, and the error lists every empty required field.
EmptyRequired(doc) == {n \in {"key", "code"} : ~doc[n]}

C16_ValidateListsAllMissing ==
    (lastValidate.op = "validate" /\ ~lastValidate.flag) =>
        /\ lastValidate.raised # None <=> EmptyRequired(top) # {}
        /\ lastValidate.raised # None => lastValidate.missing = EmptyRequired(top)

\* C17: with the flag set validate raises when a document reachable through embedded
\* documents and lists of them, at any depth, has an empty required field; with the flag
\* unset nested documents are not validated.
MidsOf(doc) == {doc.mid[i] : i \in 1..Len(doc.mid)} \cup {doc.mids[i] : i \in 1..Len(doc.mids)}
LeavesOf(mid) == {mid.leaf[i] : i \in 1..Len(mid.leaf)} \cup {mid.leaves[i] : i \in 1..Len(mid.leaves)}
NestedEmptyRequired(doc) ==
    \/ \E m \in MidsOf(doc) : ~m.key
    \/ \E m \in MidsOf(doc) : \E l \in LeavesOf(m) : ~l.key

\* The field tables validate has used are complete (the runs the defect of
\* inspect_fields does not touch).

TablesComplete ==
    \A c \in {"Top", "Mid", "Leaf"} : inspect_fields(c, fields).table = VisibleFields(c)

\* C16 on the runs in which the field tables are complete: validate() raises iff a
\* required field is empty and lists all of them.
C16_OnCompleteTables == TablesComplete => C16_ValidateListsAllMissing

\* C17 is stated on the runs in which the field tables are complete.

C17_ValidateRecursive ==
    (lastValidate.op = "validate" /\ TablesComplete) =>
        /\ (lastValidate.flag /\ NestedEmptyRequired(top)) => lastValidate.raised # None
        /\ (~lastValidate.flag /\ EmptyRequired(top) = {}) => lastValidate.raised = None

====
